---------------------------- MODULE Spec2Model ----------------------------
(***************************************************************************)
(* TSC frequency calibration against the ACPI PM timer on QEMU Q35         *)
(* (src/src/q35/timer.rs, calibrate_tsc_frequency).                        *)
(*                                                                         *)
(* The routine's u32 and u64 values exceed the integers TLC computes with, *)
(* so a machine word is modelled as the little-endian sequence of its      *)
(* bytes (radix 2^8) without leading zero bytes: 0 is << >>, 0x120 is      *)
(* <<32, 1>>.  Two words are equal exactly when their sequences are.       *)
(***************************************************************************)
EXTENDS Integers, Sequences, FiniteSets, TLC

Radix == 2^8

(***************************************************************************)
(* Unbounded naturals over byte sequences.                                 *)
(***************************************************************************)
RECURSIVE Norm(_)
Norm(s) == IF s = << >> THEN << >>
           ELSE IF s[Len(s)] = 0 THEN Norm(SubSeq(s, 1, Len(s) - 1))
           ELSE s

RECURSIVE Num(_)
Num(n) == IF n = 0 THEN << >> ELSE <<n % Radix>> \o Num(n \div Radix)

Byte(a, i) == IF i <= Len(a) THEN a[i] ELSE 0

Max(m, n) == IF m >= n THEN m ELSE n

RECURSIVE LessFrom(_, _, _)
LessFrom(a, b, i) == IF i = 0 THEN FALSE
                     ELSE IF a[i] # b[i] THEN a[i] < b[i]
                     ELSE LessFrom(a, b, i - 1)

NumLess(a, b) == IF Len(a) # Len(b) THEN Len(a) < Len(b)
                 ELSE LessFrom(a, b, Len(a))

NumLeq(a, b) == ~NumLess(b, a)

RECURSIVE AddFrom(_, _, _, _)
AddFrom(a, b, i, carry) ==
    IF i > Max(Len(a), Len(b))
    THEN (IF carry = 0 THEN << >> ELSE <<carry>>)
    ELSE LET t == Byte(a, i) + Byte(b, i) + carry
         IN  <<t % Radix>> \o AddFrom(a, b, i + 1, t \div Radix)

NumAdd(a, b) == AddFrom(a, b, 1, 0)

RECURSIVE SubFrom(_, _, _, _)
SubFrom(a, b, i, borrow) ==
    IF i > Len(a) THEN << >>
    ELSE LET t == a[i] - Byte(b, i) - borrow
         IN  IF t < 0 THEN <<t + Radix>> \o SubFrom(a, b, i + 1, 1)
             ELSE <<t>> \o SubFrom(a, b, i + 1, 0)

\* a - b for b <= a
NumSub(a, b) == Norm(SubFrom(a, b, 1, 0))

RECURSIVE MulByteFrom(_, _, _, _)
MulByteFrom(a, d, i, carry) ==
    IF i > Len(a) THEN Num(carry)
    ELSE LET t == a[i] * d + carry
         IN  <<t % Radix>> \o MulByteFrom(a, d, i + 1, t \div Radix)

ShiftByte(a) == IF a = << >> THEN << >> ELSE <<0>> \o a

RECURSIVE NumMul(_, _)
NumMul(a, b) ==
    IF a = << >> \/ b = << >> THEN << >>
    ELSE NumAdd(MulByteFrom(b, a[1], 1, 0), ShiftByte(NumMul(Tail(a), b)))

\* <<q, r>> with q * b + r = the given remainder and r < b, for q < 2 * k,
\* trying the multiples k * b, (k / 2) * b, ..., b in turn
AddDigit(k, qr) == <<k + qr[1], qr[2]>>

RECURSIVE FitMultiple(_, _, _)
FitMultiple(r, b, k) ==
    IF k = 0 THEN <<0, r>>
    ELSE IF NumLeq(MulByteFrom(b, k, 1, 0), r)
         THEN AddDigit(k, FitMultiple(NumSub(r, MulByteFrom(b, k, 1, 0)), b, k \div 2))
         ELSE FitMultiple(r, b, k \div 2)

\* schoolbook long division from byte i of a down, r the remainder so far:
\* <<quotient bytes 1..i, remainder>>
PutDigit(q, rest) == <<rest[1] \o <<q>>, rest[2]>>

RECURSIVE LongDiv(_, _, _, _)
StepDiv(a, i, b, qr) == PutDigit(qr[1], LongDiv(a, i - 1, qr[2], b))

LongDiv(a, i, r, b) ==
    IF i = 0 THEN << << >>, r >>
    ELSE IF NumLess(Norm(<<a[i]>> \o r), b)
         THEN PutDigit(0, LongDiv(a, i - 1, Norm(<<a[i]>> \o r), b))
         ELSE StepDiv(a, i, b, FitMultiple(Norm(<<a[i]>> \o r), b, Radix \div 2))

\* <<quotient, remainder>> of a by b, for b # 0
DropZeros(qr) == <<Norm(qr[1]), qr[2]>>

NumDivMod(a, b) == DropZeros(LongDiv(a, Len(a), << >>, b))

NumDiv(a, b) == NumDivMod(a, b)[1]

\* the low k bytes of a: a mod 2^(8k)
LowBytes(a, k) == Norm(SubSeq(a, 1, IF Len(a) < k THEN Len(a) ELSE k))

Two32 == <<0, 0, 0, 0, 1>>
Two64 == <<0, 0, 0, 0, 0, 0, 0, 0, 1>>

(***************************************************************************)
(* Rust integer operations of the routine.                                 *)
(***************************************************************************)
\* u32::saturating_sub in the place of wrapping_sub
SaturatingSubU32(a, b) == IF NumLess(a, b) THEN << >> ELSE NumSub(a, b)

\* u32::wrapping_sub
WrappingSubU32(a, b) == LowBytes(NumSub(NumAdd(a, Two32), b), 4)

\* `as u32`
AsU32(x) == LowBytes(x, 4)

\* u64 `*`, `-` and `/`: the wrapped value, and whether the exact value left u64
MulU64(a, b) == LowBytes(NumMul(a, b), 8)
MulOverflowsU64(a, b) == Len(NumMul(a, b)) > 8
SubU64(a, b) == LowBytes(NumSub(NumAdd(a, Two64), b), 8)
SubOverflowsU64(a, b) == NumLess(a, b)
DivU64(a, b) == NumDiv(a, b)

(***************************************************************************)
(* Constants of the routine.                                               *)
(***************************************************************************)
DEFAULT_ACPI_TIMER_FREQUENCY == 3579545
TARGET_INTERVAL_SIZE == 20
NANOS_PER_SECOND == 1000000000

\* The source sets MAX_WAIT_CYCLES to 1_000_000.  The model runs the two
\* polling loops with this smaller budget; every formula below is stated in
\* terms of MAX_WAIT_CYCLES, never of its value.
MAX_WAIT_CYCLES == 3

Frequency == Num(DEFAULT_ACPI_TIMER_FREQUENCY)
Nanos == Num(NANOS_PER_SECOND)

\* the target rounded up instead of down
TargetTicksRoundedUp ==
    AsU32(DivU64(NumAdd(Frequency, Num(TARGET_INTERVAL_SIZE - 1)),
                 Num(TARGET_INTERVAL_SIZE)))

\* let target_ticks = (DEFAULT_ACPI_TIMER_FREQUENCY / TARGET_INTERVAL_SIZE) as u32;
TargetTicks == AsU32(DivU64(Frequency, Num(TARGET_INTERVAL_SIZE)))

\* let delta_time_ns = (delta_pm * 1_000_000_000) / DEFAULT_ACPI_TIMER_FREQUENCY;
DeltaTimeNs(delta_pm) == DivU64(MulU64(delta_pm, Nanos), Frequency)

\* the division taken before the multiplication
FreqHzDivideFirst(delta_tsc, delta_time_ns) ==
    MulU64(DivU64(delta_tsc, delta_time_ns), Nanos)

\* let freq_hz = (delta_tsc * 1_000_000_000) / delta_time_ns;
FreqHz(delta_tsc, delta_time_ns) == DivU64(MulU64(delta_tsc, Nanos), delta_time_ns)

\* An arithmetic step of lines 75-82 that panics: a division by zero always,
\* an overflow in a build with overflow checks.
ComputePanics(checks, s_pm, e_pm, s_tsc, e_tsc) ==
    LET delta_pm == WrappingSubU32(e_pm, s_pm)
        delta_time_ns == DeltaTimeNs(delta_pm)
        delta_tsc == SubU64(e_tsc, s_tsc)
    IN  \/ delta_time_ns = << >>
        \/ /\ checks
           /\ \/ MulOverflowsU64(delta_pm, Nanos)
              \/ SubOverflowsU64(e_tsc, s_tsc)
              \/ MulOverflowsU64(delta_tsc, Nanos)

\* lines 75-84
ComputeFreq(s_pm, e_pm, s_tsc, e_tsc) ==
    FreqHz(SubU64(e_tsc, s_tsc), DeltaTimeNs(WrappingSubU32(e_pm, s_pm)))

(***************************************************************************)
(* The hardware the routine reads.  The PM timer is a 32-bit register; a   *)
(* read returns the register after it advanced by some number of ticks     *)
(* since the previous read.  Steps of 0 are a stuck timer, a step of       *)
(* 2^32 - 1 is a timer that went back by one tick.  The cycle counter is a *)
(* 64-bit register that either advances by some number of cycles between   *)
(* two samples (rate = NoWord) or is the synthetic clock that ticks at     *)
(* `rate` cycles per second of PM-timer time.  The sets below are the       *)
(* representative steps the model draws from.                              *)
(***************************************************************************)
NoWord == <<-1>>
NoCount == -1

WrapExampleStart == <<240, 255, 255, 255>>                  \* 0xFFFFFFF0
PmBoots == {<< >>, <<239, 255, 255, 255>>}                 \* 0, 0xFFFFFFEF
FreeSteps == {<< >>, <<1>>, <<31>>,
              NumSub(TargetTicks, <<32>>),
              <<255, 255, 255, 255>>}
RepeatSteps == {<< >>, NumSub(TargetTicks, <<32>>), <<255, 255, 255, 255>>}
NormalSteps == {<< >>, Num(59659), Num(100000)}
FreeTscDeltas == {<< >>, Num(100000000)}
Rates == {Num(1000000000), Num(2000000000), NumMul(Num(24), Num(100000000))}
TscBoot == << >>

\* advances of a 64-bit counter that nothing ties to the PM timer: none, a
\* plausible one, 18,446,744,074 (the least whose product with 10^9 leaves
\* 64 bits), and one that takes the counter once around but for a cycle
AnyTscDeltas == {<< >>, Num(100000000), <<10, 250, 130, 75, 4>>, NumSub(Two64, <<1>>)}

VARIABLES
    pc,                       \* position in calibrate_tsc_frequency
    start_pm, next_pm, end_pm,
    calibration_cycles_left,
    start_tsc, end_tsc,
    target_ticks,
    result,                   \* the value returned
    overflow_checks,          \* the build panics on integer overflow
    pm_hw, tsc_hw,            \* PM timer register, cycle counter
    pm_boot,                  \* the PM timer register when the stub was set up
    rate,                     \* NoWord or the synthetic cycle-counter rate
    ticks,                    \* true ticks elapsed since the call's first sample
    start_ticks,              \* `ticks` at the window start
    events,                   \* what the call did so far, in order
    rec, tape, pos,           \* recording / replaying the hardware's choices
    call_no, prev             \* which call this is, outcome of the previous one

locals == <<start_pm, next_pm, end_pm, calibration_cycles_left,
            start_tsc, end_tsc, target_ticks, result>>
hw == <<pm_hw, tsc_hw, ticks>>
setup == <<overflow_checks, pm_boot, rate, rec>>
vars == <<pc, locals, hw, setup, start_ticks, events, tape, pos, call_no, prev>>

InitCommon ==
    /\ pc = "Idle"
    /\ start_pm = NoWord /\ next_pm = NoWord /\ end_pm = NoWord
    /\ calibration_cycles_left = NoCount
    /\ start_tsc = NoWord /\ end_tsc = NoWord
    /\ target_ticks = NoWord
    /\ result = NoWord
    /\ pm_boot \in PmBoots
    /\ pm_hw = pm_boot
    /\ tsc_hw = TscBoot
    /\ ticks = << >>
    /\ start_ticks = << >>
    /\ events = << >>
    /\ tape = << >>
    /\ pos = 1
    /\ call_no = 1
    /\ prev = [pc |-> "Idle", result |-> NoWord]

Init == InitCommon /\ overflow_checks = TRUE /\ rate = NoWord /\ rec = "off"

InitSynthetic == InitCommon /\ overflow_checks = TRUE /\ rate \in Rates /\ rec = "off"

InitRepeat ==
    /\ InitCommon
    /\ overflow_checks = TRUE
    /\ rate \in {NoWord} \cup Rates
    /\ rec = "record"

\* the routine on hardware whose cycle counter is not tied to the PM timer,
\* in a build with overflow checks and in one without
InitAnyTsc ==
    /\ InitCommon
    /\ overflow_checks \in BOOLEAN
    /\ rate = NoWord
    /\ rec = "any"

Replaying == rec = "replay" /\ pos <= Len(tape)

\* the ticks the PM timer may have advanced by when it is read
PmSteps == IF Replaying THEN {tape[pos]}
           ELSE IF rate # NoWord THEN NormalSteps
           ELSE IF rec \in {"off", "any"} THEN FreeSteps ELSE RepeatSteps

\* the call's first read finds the register as it is
FirstStep == IF Replaying THEN {tape[pos]} ELSE {<< >>}

\* what the cycle counter may show when it is sampled
TscDeltas == IF Replaying THEN {tape[pos]}
             ELSE IF rec = "any" THEN AnyTscDeltas
             ELSE IF rate = NoWord THEN FreeTscDeltas
             ELSE {NumSub(NumDiv(NumMul(ticks, rate), Frequency), tsc_hw)}

Consume(choice) ==
    /\ tape' = IF rec = "record" THEN Append(tape, choice) ELSE tape
    /\ pos' = IF rec = "replay" THEN pos + 1 ELSE pos

\* read_pm_timer: the value `in eax, dx` returns after the timer advanced by d
PmValue(d) == AsU32(NumAdd(pm_hw, d))

ReadPmTimer(d, elapsed) ==
    /\ pm_hw' = PmValue(d)
    /\ ticks' = elapsed
    /\ Consume(d)
    /\ UNCHANGED tsc_hw

\* _rdtsc: the counter after it advanced by c
TscValue(c) == LowBytes(NumAdd(tsc_hw, c), 8)

Rdtsc(c) ==
    /\ tsc_hw' = TscValue(c)
    /\ Consume(c)
    /\ UNCHANGED <<pm_hw, ticks>>

(***************************************************************************)
(* calibrate_tsc_frequency, one action per step.                           *)
(***************************************************************************)
\* the budget kept in a static that only the first call sets
CallKeepsBudget ==
    /\ pc = "Idle"
    /\ \E d \in FirstStep :
        /\ ReadPmTimer(d, << >>)
        /\ start_pm' = PmValue(d)
    /\ calibration_cycles_left' = IF calibration_cycles_left = NoCount
                                  THEN MAX_WAIT_CYCLES
                                  ELSE calibration_cycles_left
    /\ events' = <<"read_first">>
    /\ pc' = "Aligning"
    /\ UNCHANGED <<next_pm, end_pm, start_tsc, end_tsc, target_ticks, result,
                   setup, start_ticks, call_no, prev>>

\* lines 27-29: first sample, full budget
Call ==
    /\ pc = "Idle"
    /\ \E d \in FirstStep :
        /\ ReadPmTimer(d, << >>)
        /\ start_pm' = PmValue(d)
    /\ calibration_cycles_left' = MAX_WAIT_CYCLES
    /\ events' = <<"read_first">>
    /\ pc' = "Aligning"
    /\ UNCHANGED <<next_pm, end_pm, start_tsc, end_tsc, target_ticks, result,
                   setup, start_ticks, call_no, prev>>

\* the alignment loop without its decrement
AlignSpinKeepsBudget ==
    /\ pc = "Aligning"
    /\ \E d \in PmSteps :
        /\ PmValue(d) = start_pm
        /\ ReadPmTimer(d, NumAdd(ticks, d))
        /\ next_pm' = PmValue(d)
    /\ calibration_cycles_left # 0
    /\ events' = Append(events, "read_align")
    /\ UNCHANGED <<pc, start_pm, end_pm, calibration_cycles_left, start_tsc, end_tsc,
                   target_ticks, result, setup, start_ticks, call_no, prev>>

\* lines 31-36, 39: the sample equals the first one and budget is left
AlignSpin ==
    /\ pc = "Aligning"
    /\ \E d \in PmSteps :
        /\ PmValue(d) = start_pm
        /\ ReadPmTimer(d, NumAdd(ticks, d))
        /\ next_pm' = PmValue(d)
    /\ calibration_cycles_left - 1 # 0
    /\ calibration_cycles_left' = calibration_cycles_left - 1
    /\ events' = Append(events, "read_align")
    /\ UNCHANGED <<pc, start_pm, end_pm, start_tsc, end_tsc, target_ticks,
                   result, setup, start_ticks, call_no, prev>>

\* lines 31-34: the sample differs from the first one
AlignEdge ==
    /\ pc = "Aligning"
    /\ \E d \in PmSteps :
        /\ PmValue(d) # start_pm
        /\ ReadPmTimer(d, NumAdd(ticks, d))
        /\ next_pm' = PmValue(d)
    /\ events' = Append(events, "read_align")
    /\ pc' = "Aligned"
    /\ UNCHANGED <<start_pm, end_pm, calibration_cycles_left, start_tsc, end_tsc,
                   target_ticks, result, setup, start_ticks, call_no, prev>>

\* the alignment timeout returning the fallback at once
AlignTimeoutReturns ==
    /\ pc = "Aligning"
    /\ \E d \in PmSteps :
        /\ PmValue(d) = start_pm
        /\ ReadPmTimer(d, NumAdd(ticks, d))
        /\ next_pm' = PmValue(d)
    /\ calibration_cycles_left - 1 = 0
    /\ calibration_cycles_left' = calibration_cycles_left - 1
    /\ events' = events \o <<"read_align", "warn_edge">>
    /\ result' = Frequency
    /\ pc' = "TimedOut"
    /\ UNCHANGED <<start_pm, end_pm, start_tsc, end_tsc, target_ticks,
                   setup, start_ticks, call_no, prev>>

\* lines 31-42: the sample equals the first one and the budget runs out
AlignTimeout ==
    /\ pc = "Aligning"
    /\ \E d \in PmSteps :
        /\ PmValue(d) = start_pm
        /\ ReadPmTimer(d, NumAdd(ticks, d))
        /\ next_pm' = PmValue(d)
    /\ calibration_cycles_left - 1 = 0
    /\ calibration_cycles_left' = calibration_cycles_left - 1
    /\ events' = events \o <<"read_align", "warn_edge">>
    /\ pc' = "Aligned"
    /\ UNCHANGED <<start_pm, end_pm, start_tsc, end_tsc, target_ticks, result,
                   setup, start_ticks, call_no, prev>>

\* the window start without `start_pm = next_pm`
WindowStartKeepsFirstSample ==
    /\ pc = "Aligned"
    /\ \E c \in TscDeltas :
        /\ Rdtsc(c)
        /\ start_tsc' = TscValue(c)
    /\ target_ticks' = TargetTicks
    /\ calibration_cycles_left' = MAX_WAIT_CYCLES
    /\ start_ticks' = ticks
    /\ events' = Append(events, "rdtsc_start")
    /\ pc' = "Measuring"
    /\ UNCHANGED <<start_pm, next_pm, end_pm, end_tsc, result, setup, call_no, prev>>

\* the measurement wait running on what the alignment left of the budget
WindowStartKeepsBudget ==
    /\ pc = "Aligned"
    /\ start_pm' = next_pm
    /\ \E c \in TscDeltas :
        /\ Rdtsc(c)
        /\ start_tsc' = TscValue(c)
    /\ target_ticks' = TargetTicks
    /\ start_ticks' = ticks
    /\ events' = Append(events, "rdtsc_start")
    /\ pc' = "Measuring"
    /\ UNCHANGED <<next_pm, end_pm, end_tsc, result, setup, call_no, prev,
                   calibration_cycles_left>>

\* lines 44-54
WindowStart ==
    /\ pc = "Aligned"
    /\ start_pm' = next_pm
    /\ \E c \in TscDeltas :
        /\ Rdtsc(c)
        /\ start_tsc' = TscValue(c)
    /\ target_ticks' = TargetTicks
    /\ calibration_cycles_left' = MAX_WAIT_CYCLES
    /\ start_ticks' = ticks
    /\ events' = Append(events, "rdtsc_start")
    /\ pc' = "Measuring"
    /\ UNCHANGED <<next_pm, end_pm, end_tsc, result, setup, call_no, prev>>

\* if delta >= target_ticks
Reached(sample) == NumLeq(target_ticks, WrappingSubU32(sample, start_pm))

\* lines 56-61, 65: the target is not reached and budget is left
MeasureSpin ==
    /\ pc = "Measuring"
    /\ \E d \in PmSteps :
        /\ ~Reached(PmValue(d))
        /\ ReadPmTimer(d, NumAdd(ticks, d))
        /\ end_pm' = PmValue(d)
    /\ calibration_cycles_left - 1 # 0
    /\ calibration_cycles_left' = calibration_cycles_left - 1
    /\ events' = Append(events, "read_measure")
    /\ UNCHANGED <<pc, start_pm, next_pm, start_tsc, end_tsc, target_ticks,
                   result, setup, start_ticks, call_no, prev>>

\* lines 56-60: the target is reached
MeasureReached ==
    /\ pc = "Measuring"
    /\ \E d \in PmSteps :
        /\ Reached(PmValue(d))
        /\ ReadPmTimer(d, NumAdd(ticks, d))
        /\ end_pm' = PmValue(d)
    /\ events' = Append(events, "read_measure")
    /\ pc' = "Measured"
    /\ UNCHANGED <<start_pm, next_pm, calibration_cycles_left, start_tsc, end_tsc,
                   target_ticks, result, setup, start_ticks, call_no, prev>>

\* the measurement timeout variants: leaving the loop without returning,
\* returning 0, and sampling the end cycle counter before returning
MeasureTimeoutBreaks ==
    /\ pc = "Measuring"
    /\ \E d \in PmSteps :
        /\ ~Reached(PmValue(d))
        /\ ReadPmTimer(d, NumAdd(ticks, d))
        /\ end_pm' = PmValue(d)
    /\ calibration_cycles_left - 1 = 0
    /\ calibration_cycles_left' = calibration_cycles_left - 1
    /\ events' = events \o <<"read_measure", "warn_target">>
    /\ pc' = "Measured"
    /\ UNCHANGED <<start_pm, next_pm, start_tsc, end_tsc, target_ticks, result,
                   setup, start_ticks, call_no, prev>>

MeasureTimeoutReturnsZero ==
    /\ pc = "Measuring"
    /\ \E d \in PmSteps :
        /\ ~Reached(PmValue(d))
        /\ ReadPmTimer(d, NumAdd(ticks, d))
        /\ end_pm' = PmValue(d)
    /\ calibration_cycles_left - 1 = 0
    /\ calibration_cycles_left' = calibration_cycles_left - 1
    /\ events' = events \o <<"read_measure", "warn_target">>
    /\ result' = << >>
    /\ pc' = "TimedOut"
    /\ UNCHANGED <<start_pm, next_pm, start_tsc, end_tsc, target_ticks,
                   setup, start_ticks, call_no, prev>>

MeasureTimeoutSamplesEnd ==
    /\ pc = "Measuring"
    /\ \E d \in PmSteps :
        /\ ~Reached(PmValue(d))
        /\ ReadPmTimer(d, NumAdd(ticks, d))
        /\ end_pm' = PmValue(d)
    /\ calibration_cycles_left - 1 = 0
    /\ calibration_cycles_left' = calibration_cycles_left - 1
    /\ end_tsc' = tsc_hw
    /\ events' = events \o <<"read_measure", "rdtsc_end", "warn_target">>
    /\ result' = Frequency
    /\ pc' = "TimedOut"
    /\ UNCHANGED <<start_pm, next_pm, start_tsc, target_ticks,
                   setup, start_ticks, call_no, prev>>

\* lines 56-68: the target is not reached and the budget runs out
MeasureTimeout ==
    /\ pc = "Measuring"
    /\ \E d \in PmSteps :
        /\ ~Reached(PmValue(d))
        /\ ReadPmTimer(d, NumAdd(ticks, d))
        /\ end_pm' = PmValue(d)
    /\ calibration_cycles_left - 1 = 0
    /\ calibration_cycles_left' = calibration_cycles_left - 1
    /\ events' = events \o <<"read_measure", "warn_target">>
    /\ result' = Frequency
    /\ pc' = "TimedOut"
    /\ UNCHANGED <<start_pm, next_pm, start_tsc, end_tsc, target_ticks,
                   setup, start_ticks, call_no, prev>>

\* lines 72-84
WindowEnd ==
    /\ pc = "Measured"
    /\ \E c \in TscDeltas :
        LET e_tsc == TscValue(c)
        IN  /\ Rdtsc(c)
            /\ end_tsc' = e_tsc
            /\ IF ComputePanics(overflow_checks, start_pm, end_pm, start_tsc, e_tsc)
               THEN /\ pc' = "Panicked"
                    /\ events' = events \o <<"rdtsc_end", "panic">>
                    /\ UNCHANGED result
               ELSE /\ pc' = "Done"
                    /\ events' = events \o <<"rdtsc_end", "compute">>
                    /\ result' = ComputeFreq(start_pm, end_pm, start_tsc, e_tsc)
    /\ UNCHANGED <<start_pm, next_pm, end_pm, calibration_cycles_left, start_tsc,
                   target_ticks, setup, start_ticks, call_no, prev>>

Terminal == pc \in {"Done", "TimedOut", "Panicked"}

Next ==
    \/ Call
    \/ AlignSpin
    \/ AlignEdge
    \/ AlignTimeout
    \/ WindowStart
    \/ MeasureSpin
    \/ MeasureReached
    \/ MeasureTimeout
    \/ WindowEnd

\* The caller calls again against the same synthetic hardware: the stub is
\* set up as before and replays the choices the first call recorded.  The
\* routine's locals are dead stack slots that nothing clears.
Return ==
    /\ Terminal
    /\ call_no = 1
    /\ prev' = [pc |-> pc, result |-> result]
    /\ call_no' = call_no + 1
    /\ pc' = "Idle"
    /\ pm_hw' = pm_boot
    /\ tsc_hw' = TscBoot
    /\ ticks' = << >>
    /\ rec' = IF rec = "record" THEN "replay" ELSE rec
    /\ pos' = 1
    /\ UNCHANGED <<locals, overflow_checks, pm_boot, rate, start_ticks, events, tape>>

NextRepeat == Next \/ Return

Spec == Init /\ [][Next]_vars

SpecRepeat == InitRepeat /\ [][NextRepeat]_vars

SpecSynthetic == InitSynthetic /\ [][Next]_vars

SpecAnyTsc == InitAnyTsc /\ [][Next]_vars
(***************************************************************************)
(* What a call did, read off its log.                                      *)
(***************************************************************************)
Count(kind) == Cardinality({i \in 1..Len(events) : events[i] = kind})
AlignReads == Count("read_align")
MeasureReads == Count("read_measure")
PmReads == Count("read_first") + AlignReads + MeasureReads
Last(kind) == Len(events) > 0 /\ events[Len(events)] = kind
EdgeTimedOut == Count("warn_edge") > 0
InWindow == pc \in {"Measuring", "Measured", "Done", "TimedOut", "Panicked"}
Delta == WrappingSubU32(end_pm, start_pm)
IsU64(x) == x # NoWord /\ Len(x) <= 8 /\ \A i \in 1..Len(x) : x[i] \in 0..(Radix - 1)

\* C1: a stuck PM timer (every read returns the first value) never reaches the
\* frequency derivation; each stuck read consumes one unit of the current
\* loop's budget, so after the first read and MAX_WAIT_CYCLES reads per loop
\* the call has returned, and what it returns is DEFAULT_ACPI_TIMER_FREQUENCY.
C1_StuckTimerFallsBack ==
    (pc # "Idle" /\ ticks = << >>) =>
        /\ pc \in {"Aligning", "Aligned", "Measuring", "TimedOut"}
        /\ pm_hw = start_pm
        /\ pc = "Aligning" =>
             /\ calibration_cycles_left = MAX_WAIT_CYCLES - AlignReads
             /\ calibration_cycles_left >= 1
        /\ pc = "Aligned" => AlignReads = MAX_WAIT_CYCLES
        /\ pc = "Measuring" =>
             /\ calibration_cycles_left = MAX_WAIT_CYCLES - MeasureReads
             /\ calibration_cycles_left >= 1
        /\ pc = "TimedOut" =>
             /\ PmReads = 1 + MAX_WAIT_CYCLES + MAX_WAIT_CYCLES
             /\ result = Num(DEFAULT_ACPI_TIMER_FREQUENCY)

C1_Witness == pc = "TimedOut" /\ ticks = << >> /\ result = Num(3579545)

\* the steps a call can still take: every step of the routine lowers it
StepsLeft ==
    CASE pc = "Idle" -> MAX_WAIT_CYCLES + MAX_WAIT_CYCLES + 4
      [] pc = "Aligning" -> MAX_WAIT_CYCLES + 3 + calibration_cycles_left
      [] pc = "Aligned" -> MAX_WAIT_CYCLES + 3
      [] pc = "Measuring" -> 2 + calibration_cycles_left
      [] pc = "Measured" -> 2
      [] OTHER -> 0

\* the state part of C2
C2_BoundedPolling ==
    /\ AlignReads <= MAX_WAIT_CYCLES
    /\ MeasureReads <= MAX_WAIT_CYCLES
    /\ PmReads <= 1 + MAX_WAIT_CYCLES + MAX_WAIT_CYCLES
    /\ pc = "Aligning" =>
         /\ calibration_cycles_left + AlignReads = MAX_WAIT_CYCLES
         /\ calibration_cycles_left >= 1
    /\ pc = "Measuring" =>
         /\ calibration_cycles_left + MeasureReads = MAX_WAIT_CYCLES
         /\ calibration_cycles_left >= 1
    /\ pc \in {"Done", "TimedOut", "Panicked"} => pc # "Panicked" /\ IsU64(result)

C3_NoDivisionByZero ==
    /\ pc \in {"Measured", "Done"} =>
         /\ NumLeq(target_ticks, Delta)
         /\ NumLeq(Num(178977), Delta)
         /\ DeltaTimeNs(Delta) # << >>
         /\ Frequency # << >>
    /\ pc # "Panicked"

C3_Witness == pc = "Done" /\ Delta = Num(178977) /\ start_pm # << >>

\* C4: a call times out exactly when the measurement wait has made
\* MAX_WAIT_CYCLES reads and the last of them is still short of target_ticks;
\* it then has logged the warning last, returns DEFAULT_ACPI_TIMER_FREQUENCY,
\* and has neither sampled the end cycle counter nor computed anything.
C4_MeasurementTimeout ==
    /\ pc = "TimedOut" =>
         /\ MeasureReads = MAX_WAIT_CYCLES
         /\ ~Reached(end_pm)
         /\ Last("warn_target")
         /\ result = Num(DEFAULT_ACPI_TIMER_FREQUENCY)
         /\ Count("rdtsc_end") = 0
         /\ Count("compute") = 0
         /\ end_tsc = NoWord
    /\ (InWindow /\ MeasureReads = MAX_WAIT_CYCLES /\ ~Reached(end_pm)) =>
         pc = "TimedOut"
    /\ Count("warn_target") > 0 => pc = "TimedOut"

C4_Witness == pc = "TimedOut" /\ ticks # << >> /\ end_pm # start_pm

\* C5: when the edge alignment runs out of budget the call goes on: it has
\* logged the edge warning, the window starts at the last sample read, the
\* start cycle counter is sampled once right after the warning, and the
\* measurement wait has its own budget; if a measurement read then reaches
\* the target the call ends Done with a computed frequency, and it ends
\* TimedOut only after MAX_WAIT_CYCLES measurement reads.
C5_EdgeTimeoutProceeds ==
    EdgeTimedOut =>
        /\ pc \in {"Aligned", "Measuring", "Measured", "Done", "TimedOut"}
        /\ pc = "TimedOut" => MeasureReads = MAX_WAIT_CYCLES
        /\ AlignReads = MAX_WAIT_CYCLES
        /\ Count("warn_edge") = 1
        /\ events[1 + MAX_WAIT_CYCLES + 1] = "warn_edge"
        /\ pc = "Aligned" => Last("warn_edge")
        /\ InWindow =>
             /\ start_pm = next_pm
             /\ events[1 + MAX_WAIT_CYCLES + 2] = "rdtsc_start"
             /\ Count("rdtsc_start") = 1
             /\ start_tsc # NoWord
        /\ pc = "Measuring" => calibration_cycles_left + MeasureReads = MAX_WAIT_CYCLES
        /\ pc = "TimedOut" => ~Reached(end_pm)
        /\ (pc \in {"Done", "TimedOut"} /\ Reached(end_pm)) =>
             /\ pc = "Done"
             /\ Last("compute")
             /\ Count("warn_target") = 0
             /\ result = FreqHz(SubU64(end_tsc, start_tsc), DeltaTimeNs(Delta))

C5_Witness ==
    /\ EdgeTimedOut
    /\ pc = "Done"
    /\ result = Num(2000002800)
\* C6: while fewer than 2^32 ticks truly elapsed since the window start, the
\* delta the routine computes with wrapping_sub from the window-start sample
\* and the latest sample is the true number of elapsed ticks, also when the
\* counter wrapped past zero in between (0x00000010 - 0xFFFFFFF0 = 0x20).
ElapsedTicks == NumSub(ticks, start_ticks)

C6_WrappingDelta ==
    (InWindow /\ end_pm # NoWord /\ NumLess(ElapsedTicks, Two32)) =>
        /\ Delta = ElapsedTicks
        /\ Reached(end_pm) = NumLeq(Num(178977), ElapsedTicks)

C6_Witness ==
    /\ pc = "Measuring"
    /\ start_pm = WrapExampleStart
    /\ end_pm = <<16>>
    /\ NumLess(end_pm, start_pm)
    /\ Delta = <<32>>
    /\ ElapsedTicks = <<32>>

\* C7: with noise-free synthetic clocks (PM timer at 3,579,545 Hz, cycle
\* counter at rate R), a call that completes its measurement returns R to
\* within one part in ten million, hence within 1% of R; for
\* R = 2,000,000,000 the result is within 1% of 2,000,000,000.
AbsDiff(a, b) == IF NumLess(a, b) THEN NumSub(b, a) ELSE NumSub(a, b)

C7_SyntheticAccuracy ==
    (pc = "Done" /\ rate # NoWord) =>
        /\ NumLeq(NumMul(AbsDiff(result, rate), Num(10000000)), rate)
        /\ NumLeq(NumMul(AbsDiff(result, rate), Num(100)), rate)
        /\ rate = Num(2000000000) =>
             /\ NumLeq(Num(1980000000), result)
             /\ NumLeq(result, Num(2020000000))

C7_Witness ==
    /\ pc = "Done"
    /\ rate = Num(2000000000)
    /\ Delta = Num(178977)
    /\ result # rate

\* C8: a second call that meets the same hardware behaviour as the first one
\* takes the same path, consumes exactly the same reads and samples, and
\* returns the same value, although the first call's locals are still lying
\* in memory.
C8_Repeatable ==
    (call_no = 2 /\ pc \in {"Done", "TimedOut", "Panicked"}) =>
        /\ pc = prev.pc
        /\ result = prev.result
        /\ pos = Len(tape) + 1

C8_Witness ==
    /\ call_no = 2
    /\ pc = "Done"
    /\ prev.pc = "Done"
    /\ EdgeTimedOut
    /\ result # << >>

\* C9: the measurement target, 3,579,545 / 20 in integer division narrowed to
\* 32 bits, is exactly 178,977 whenever the measurement wait uses it.
C9_TargetTicks ==
    /\ InWindow => target_ticks = Num(178977)
    /\ ~InWindow => target_ticks = NoWord

C9_Witness == pc = "Measuring" /\ target_ticks = <<33, 187, 2>>
\* the phase a position belongs to, and the order of the log's entries
Phase ==
    CASE pc = "Idle" -> "Idle"
      [] pc \in {"Aligning", "Aligned"} -> "Aligning"
      [] pc \in {"Measuring", "Measured"} -> "Measuring"
      [] OTHER -> pc

Rank(kind) ==
    CASE kind = "read_first" -> 0
      [] kind = "read_align" -> 1
      [] kind = "warn_edge" -> 2
      [] kind = "rdtsc_start" -> 3
      [] kind = "read_measure" -> 4
      [] kind \in {"rdtsc_end", "warn_target"} -> 5
      [] OTHER -> 6

C10_Samples ==
    /\ Phase \in {"Idle", "Aligning", "Measuring", "Done", "TimedOut"}
    /\ \A i \in 1..Len(events) : \A j \in i..Len(events) :
         Rank(events[i]) <= Rank(events[j])
    /\ Count("rdtsc_start") = IF Phase \in {"Measuring", "Done", "TimedOut"} THEN 1 ELSE 0
    /\ Count("rdtsc_end") = IF Phase = "Done" THEN 1 ELSE 0
    /\ (start_tsc = NoWord) = (Count("rdtsc_start") = 0)
    /\ (end_tsc = NoWord) = (Count("rdtsc_end") = 0)
    /\ Phase = "Measuring" => AlignReads >= 1
    /\ Phase \in {"Done", "TimedOut"} => AlignReads >= 1 /\ MeasureReads >= 1

C10_PhaseStep ==
    /\ <<Phase, Phase'>> \in {<<"Idle", "Aligning">>,
                              <<"Aligning", "Aligning">>,
                              <<"Aligning", "Measuring">>,
                              <<"Measuring", "Measuring">>,
                              <<"Measuring", "Done">>,
                              <<"Measuring", "TimedOut">>}
    /\ (Count("rdtsc_start")' # Count("rdtsc_start"))
         = (Phase = "Aligning" /\ Phase' = "Measuring")
    /\ (Count("rdtsc_end")' # Count("rdtsc_end"))
         = (Phase = "Measuring" /\ Phase' = "Done")
    /\ Phase' = "Done" =>
         /\ Last("read_measure")
         /\ Reached(end_pm)
         /\ end_pm' = end_pm
    /\ Phase' = "TimedOut" =>
         /\ calibration_cycles_left' = 0
         /\ MeasureReads' = MAX_WAIT_CYCLES

C11_StartTick ==
    /\ pc = "Aligning" => start_pm = pm_boot /\ ~EdgeTimedOut
    /\ (pc = "Aligned" /\ ~EdgeTimedOut) =>
         /\ next_pm # start_pm
         /\ next_pm = pm_hw
         /\ Last("read_align")
    /\ (InWindow /\ ~EdgeTimedOut) =>
         /\ start_pm = next_pm
         /\ start_pm # pm_boot
         /\ AlignReads <= MAX_WAIT_CYCLES
    /\ (InWindow /\ end_pm # NoWord) =>
         Delta = WrappingSubU32(end_pm, next_pm)
    /\ pc = "Done" =>
         result = FreqHz(SubU64(end_tsc, start_tsc),
                         DeltaTimeNs(WrappingSubU32(end_pm, next_pm)))

\* the step part of C11: an alignment read that returns the first sample
\* keeps the loop going (or times it out), one that returns another value
\* ends it at once with that value; every measurement read is judged by its
\* distance from that value; the start tick stays as it is in the window
C11_Step ==
    /\ pc = "Aligning" =>
         /\ next_pm' = pm_hw'
         /\ (pm_hw' # start_pm) = (pc' = "Aligned" /\ ~EdgeTimedOut')
         /\ (pm_hw' = start_pm) =>
              \/ pc' = "Aligning"
              \/ pc' = "Aligned" /\ EdgeTimedOut' /\ calibration_cycles_left' = 0
         /\ start_pm' = start_pm
    /\ pc = "Measuring" =>
         /\ end_pm' = pm_hw'
         /\ (pc' = "Measured")
              = NumLeq(Num(178977), WrappingSubU32(pm_hw', next_pm))
    /\ (InWindow /\ InWindow') => start_pm' = start_pm /\ next_pm' = next_pm

\* C11: when the PM timer changes within the alignment budget, the alignment
\* loop stops at the first read whose value differs from the first sample,
\* that value is the start tick every measurement-loop delta and the final
\* elapsed-tick delta are taken from, and the start tick is not modified
\* after alignment.
C11_EdgeAlignment == []C11_StartTick /\ [][C11_Step]_vars

C11_Witness ==
    /\ pc = "Done"
    /\ ~EdgeTimedOut
    /\ AlignReads = 2
    /\ pm_boot = <<239, 255, 255, 255>>
    /\ start_pm = WrapExampleStart
    /\ Delta = Num(178977)

\* the three unsigned 64-bit operations of lines 76, 79 and 82 on the
\* samples the call took
C12_ComputationFits ==
    /\ ~MulOverflowsU64(Delta, Nanos)
    /\ ~SubOverflowsU64(end_tsc, start_tsc)
    /\ ~MulOverflowsU64(SubU64(end_tsc, start_tsc), Nanos)

\* C12: the routine never panics on arithmetic: whatever the 32-bit tick
\* delta and whatever the two cycle-counter samples, delta_pm * 10^9,
\* end_tsc - start_tsc and delta_tsc * 10^9 stay within 64 bits, and the
\* budget of either polling loop never goes below zero.
C12_NoArithmeticPanic ==
    /\ pc # "Panicked"
    /\ calibration_cycles_left # NoCount => calibration_cycles_left >= 0
    /\ end_tsc # NoWord => C12_ComputationFits
=============================================================================
